---- MODULE Spec2Model ----
(***************************************************************************)
(* Model of knowsee: the periodic driver (main.py periodic),               *)
(* BotManager.sync_full / sync_chat / update_message, the command          *)
(* handlers and BotManager.stop, Crawler.process_calendars, the tables of  *)
(* db.py and MDTracker (event_trackers.py).                                *)
(*                                                                         *)
(* Every await of the source is one action: between two awaits the code    *)
(* of a coroutine runs without interleaving (asyncio, single thread).      *)
(* The chat platform, the feed fetcher and the store may answer each call  *)
(* with success or with an error; the outcome is chosen with \E.           *)
(*                                                                         *)
(* Specifications:                                                         *)
(*   Spec        the driver and its cycles                                 *)
(*   SpecRows    the same on a store with several rows of a conversation   *)
(*   SpecStop    the driver, its cycles and the shutdown                   *)
(*   SpecCmd     the command handlers                                      *)
(*   SpecRace    a command during a cycle of the driver                    *)
(*   SpecTracker an MDTracker on its own                                   *)
(***************************************************************************)
EXTENDS Integers, Sequences, FiniteSets, TLC

\* ---------------------------------------------------------------- bounds
Chats == {1, 2}
MaxTime == 1
MaxCycles == 2
Interval == 1
MaxCommands == 1
MaxEvents == 3

\* main.py:29  OLD_MESSAGE_CUTOFF = datetime.timedelta(days=7)
OLD_MESSAGE_CUTOFF == 7

\* config.py:27-36  telegram.chat_ids: the conversations allowed to attach
\* calendar groups
Authorized == {1}

Feed(n, u) == [name |-> n, url |-> u]

\* config.py:60-63  calendar_groups: group name -> list of Calendar
calendar_groups ==
    [g \in {"g1", "g2"} |->
       IF g = "g1" THEN <<Feed("a", 1), Feed("b", 1)>>
       ELSE <<Feed("a", 2)>>]

\* The store outlives the process. What it holds when the process starts:
\* the registered conversations and, for each, the age of its tracked row
\* (0: the conversation has no tracked row). The clock reads `at`: with one
\* conversation the whole horizon 0..MaxTime lies ahead (several cycles),
\* with two the process starts at the horizon (one cycle, interleaved).
\* `older` is the age of a second, older tracked row of conversation 1
\* (0: there is none).
InitStores ==
    {[chats |-> {1}, at |-> 0, age |-> <<a, 0>>, older |-> 0] :
       a \in {0, 7, 8}}
      \cup {[chats |-> {1, 2}, at |-> MaxTime, age |-> <<a, b>>,
              older |-> 0] : a \in {0, 7, 8}, b \in {0, 7, 8}}

\* stores in which conversation 1 has two tracked rows
RowStores ==
    {[chats |-> {1}, at |-> 0, age |-> <<a, 0>>, older |-> 9] :
       a \in {7, 8}}
      \cup {[chats |-> {1, 2}, at |-> MaxTime, age |-> <<a, 7>>,
              older |-> 9] : a \in {7, 8}}

NoRow == [chat_id |-> 0, message_id |-> 0, pinned |-> FALSE,
          create_time |-> 0, update_time |-> 0]

\* the task id of the sync_chat awaited by a command handler; the sync_chat
\* that sync_full starts for conversation c has task id c
CmdTask == 0

TaskIds == Chats \cup {CmdTask}

VARIABLES
    now,        \* wall clock
    chats,      \* table chats: the ids of the registered conversations
    tracked,    \* table tracked_messages as the shared connection sees it
    durable,    \* table tracked_messages as of the last commit
    calendars,  \* table calendars: chat id -> sequence of feeds
    conn,       \* Database.conn: "open" or "closed"
    lastMsgId,  \* platform: chat id -> id of the last message sent there
    digests,    \* platform: chat id -> ids of the digest messages sent
    replies,    \* platform: the answers sent to commands
    task,       \* task id -> a sync_chat coroutine
    sfpc,       \* position of the sync_full coroutine
    chat_ids,   \* sync_full: the ids read by list_all_chats
    driver,     \* position of the periodic coroutine
    bg,         \* BackgroundTaskManager.tasks
    stopped,    \* BotManager.stop has been called
    sleepUntil, \* deadline of the asyncio.sleep(interval) of the iteration
    starts,     \* times at which sync_full was called
    completes,  \* times at which a sync_full call returned or raised
    cmd,        \* the command handler being run
    ncmds,      \* number of commands received
    tevents,    \* MDTracker.events of a tracker
    tlast,      \* the event last given to track_event
    terr,       \* the exception the last track_event raised, or "none"
    markdown,   \* what generate_markdown returned
    structured  \* what generate_dict returned

\* the store and the platform
storeVars == <<chats, tracked, durable, calendars, conn>>
platformVars == <<lastMsgId, digests, replies>>
\* the periodic driver and sync_full
driverVars == <<sfpc, chat_ids, driver, bg, sleepUntil, starts, completes>>
\* the command handler
cmdVars == <<cmd, ncmds>>
\* an MDTracker
trackerVars == <<tevents, tlast, terr, markdown, structured>>

vars == <<now, storeVars, platformVars, task, driverVars, stopped, cmdVars,
          trackerVars>>

\* ------------------------------------------------------------ db.py
Rows(tr, c) == {r \in tr : r.chat_id = c}

\* ORDER BY create_time DESC LIMIT 1: any row of the greatest create_time
LatestRows(tr, c) ==
    {r \in Rows(tr, c) : \A q \in Rows(tr, c) : q.create_time <= r.create_time}

get_latest_tracked_message(tr, c) ==
    IF Rows(tr, c) = {} THEN {NoRow} ELSE LatestRows(tr, c)

\* a table that keeps one row for each conversation
add_tracked_message_single(tr, c, m, p, t) ==
    {r \in tr : r.chat_id # c}
      \cup {[chat_id |-> c, message_id |-> m, pinned |-> p,
              create_time |-> t, update_time |-> t]}

add_tracked_message(tr, c, m, p, t) ==
    IF \E r \in tr : r.chat_id = c /\ r.message_id = m
    THEN tr
    ELSE tr \cup {[chat_id |-> c, message_id |-> m, pinned |-> p,
                   create_time |-> t, update_time |-> t]}

db_update_message(tr, c, m, t) ==
    {IF r.chat_id = c /\ r.message_id = m
     THEN [r EXCEPT !.update_time = t] ELSE r : r \in tr}

\* a DELETE without the message_id in its WHERE clause
delete_message_of_chat(tr, c, m) == {r \in tr : r.chat_id # c}

delete_message(tr, c, m) ==
    {r \in tr : ~(r.chat_id = c /\ r.message_id = m)}

\* INSERT OR IGNORE INTO chats
touch_chat(cs, c) == cs \cup {c}

\* a table without the UNIQUE(chat_id, name) constraint
add_calendar_no_unique(cals, c, f) == [cals EXCEPT ![c] = Append(@, f)]

\* INSERT OR IGNORE INTO calendars, UNIQUE(chat_id, name): a feed whose name
\* the conversation already has is ignored
add_calendar(cals, c, f) ==
    IF \E i \in 1..Len(cals[c]) : cals[c][i].name = f.name
    THEN cals
    ELSE [cals EXCEPT ![c] = Append(@, f)]

\* DELETE FROM calendars WHERE chat_id = ? AND name = ?
delete_calendar(cals, c, n) ==
    LET Other(f) == f.name # n
    IN [cals EXCEPT ![c] = SelectSeq(@, Other)]

\* DELETE FROM calendars WHERE chat_id = ?
clear_calendars_for_chat(cals, c) == [cals EXCEPT ![c] = <<>>]

\* safe_must(self.conn, ...) raises ValueError once the connection is
\* closed; an open connection may fail with a store error
StoreError(cn) == IF cn = "open" THEN "PersistenceError" ELSE "ValueError"

\* ------------------------------------------------- event_trackers.py
\* The values an iCalendar date property can hold (icalendar.vDDDTypes.dt):
\* a date, a datetime, or something that is neither (a duration).
NoDt == [type |-> "none", day |-> 0, hour |-> 0]

Date(d) == [type |-> "date", day |-> d, hour |-> 0]

DateTime(d, h) == [type |-> "datetime", day |-> d, hour |-> h]

Duration == [type |-> "duration", day |-> 0, hour |-> 1]

\* a property of an event: its VALUE parameter ("none": no parameter) and
\* its value; Absent is what event.get returns for a missing property
Property(v, dt) == [value |-> v, dt |-> dt]

Absent == Property("absent", NoDt)

DtStarts ==
    {Absent, Property("DATE", Date(1)), Property("DATE", Date(2)),
     Property("DATE", Duration), Property("PERIOD", DateTime(1, 9)),
     Property("none", DateTime(1, 9)), Property("none", DateTime(1, 10)),
     Property("none", DateTime(2, 9))}

DtEnds ==
    {Absent, Property("DATE", Date(3)), Property("none", DateTime(2, 11)),
     Property("none", Duration)}

NoEvent == [dtstart |-> Absent, dtend |-> Absent, summary |-> 0]

NotGenerated == <<[kind |-> "none"]>>

\* event_trackers.py:46-57
vdd_to_datetime(dt) ==
    IF dt.type = "datetime" THEN dt
    ELSE IF dt.type = "date" THEN DateTime(dt.day, 0)
    ELSE NoDt

\* start + relativedelta(days=1)
PlusOneDay(dt) == [dt EXCEPT !.day = @ + 1]

EventMD(start, end, title, allDay) ==
    [start |-> start, end |-> end, title |-> title, allDay |-> allDay]

\* event_trackers.py:76-109  MDTracker.track_event: the events list after
\* the call and the exception raised ("none": the call returned).
\* EventMD is a beartype dataclass: start and end must be datetimes.
track_event(evs, e) ==
    IF e.dtstart = Absent
    THEN [events |-> evs, err |-> "TypeError"]
    ELSE IF e.dtend = Absent
    THEN [events |-> evs, err |-> "TypeError"]
    ELSE IF e.dtstart.value = "DATE"
    THEN LET start == vdd_to_datetime(e.dtstart.dt)
             end == vdd_to_datetime(e.dtend.dt)
         IN IF start = NoDt
            THEN [events |-> evs, err |-> "TypeError"]
            ELSE [events |-> Append(evs, EventMD(start,
                      IF end = NoDt THEN PlusOneDay(start) ELSE end,
                      e.summary, TRUE)),
                  err |-> "none"]
    ELSE IF e.dtstart.value # "none"
    THEN [events |-> evs, err |-> "TypeError"]
    ELSE IF e.dtstart.dt.type # "datetime" \/ e.dtend.dt.type # "datetime"
    THEN [events |-> evs, err |-> "BeartypeCallHintParamViolation"]
    ELSE [events |-> Append(evs, EventMD(e.dtstart.dt, e.dtend.dt,
                                         e.summary, FALSE)),
          err |-> "none"]

\* the order of datetimes
Instant(dt) == dt.day * 24 + dt.hour

\* an insertion that puts an entry before the entries of the same start
InsertByStartBeforeTies(s, e) ==
    LET n == Cardinality({i \in 1..Len(s) :
                            Instant(s[i].start) < Instant(e.start)})
    IN SubSeq(s, 1, n) \o <<e>> \o SubSeq(s, n + 1, Len(s))

\* list.sort(key=lambda e: e.start) is stable: an entry goes after the
\* entries already placed whose start is not later than its own
InsertByStart(s, e) ==
    LET n == Cardinality({i \in 1..Len(s) :
                            Instant(s[i].start) <= Instant(e.start)})
    IN SubSeq(s, 1, n) \o <<e>> \o SubSeq(s, n + 1, Len(s))

RECURSIVE SortByStart(_)
SortByStart(s) ==
    IF s = <<>> THEN <<>>
    ELSE InsertByStart(SortByStart(SubSeq(s, 1, Len(s) - 1)), s[Len(s)])

\* sorted(date_maps.items()): the dates in ascending order
RECURSIVE SortedDates(_)
SortedDates(ds) ==
    IF ds = {} THEN <<>>
    ELSE LET m == CHOOSE d \in ds : \A q \in ds : d <= q
         IN <<m>> \o SortedDates(ds \ {m})

\* the lines of the text digest; strftime(date_format) of a date shows the
\* day, strftime(time_format) of a datetime shows the time of day
DateLine(d) == [kind |-> "date", date |-> d]

AllDayLine(e) == [kind |-> "allday", title |-> e.title]

TimedLine(e) ==
    [kind |-> "timed", start |-> e.start.hour, end |-> e.end.hour,
     title |-> e.title]

BlankLine == [kind |-> "blank"]

\* event_trackers.py:125-137  the section of one date
Section(evs, d) ==
    LET OnDate(e) == e.start.day = d
        IsAllDay(e) == e.allDay
        IsTimed(e) == ~e.allDay
        events == SelectSeq(evs, OnDate)
        all_day == SelectSeq(events, IsAllDay)
        timed == SortByStart(SelectSeq(events, IsTimed))
    IN <<DateLine(d)>>
         \o [i \in 1..Len(all_day) |-> AllDayLine(all_day[i])]
         \o [i \in 1..Len(timed) |-> TimedLine(timed[i])]
         \o <<BlankLine>>

RECURSIVE Sections(_, _)
Sections(evs, dates) ==
    IF dates = <<>> THEN <<>>
    ELSE Section(evs, Head(dates)) \o Sections(evs, Tail(dates))

\* event_trackers.py:111-139  MDTracker.generate_markdown, as its lines
generate_markdown(evs) ==
    Sections(evs, SortedDates({evs[i].start.day : i \in 1..Len(evs)}))

\* datetime.isoformat() shows the date and the time of day
isoformat(dt) == <<dt.day, dt.hour>>

\* event_trackers.py:141-150  MDTracker.generate_dict
generate_dict(evs) ==
    [i \in 1..Len(evs) |->
       [title |-> evs[i].title, start |-> isoformat(evs[i].start),
        end |-> isoformat(evs[i].end), allDay |-> evs[i].allDay]]

\* ------------------------------------------------------- coroutine state
NewTask ==
    [pc |-> "get_calendars", chat |-> 0, cals |-> <<>>, idx |-> 1,
     events |-> <<>>, skipped |-> {}, expanded |-> {}, message |-> <<>>,
     latest |-> NoRow, seen |-> NoRow, age |-> 0, msg |-> 0,
     pinned |-> FALSE, dirty |-> "none", calls |-> <<>>, err |-> "none"]

IdleTask == [NewTask EXCEPT !.pc = "idle"]

\* a sync_chat(c) coroutine that has not run yet
SyncChat(c) == [NewTask EXCEPT !.chat = c]

Call(t, op, res) == [t EXCEPT !.calls = Append(@, <<op, res>>)]

Raise(t, e) == [t EXCEPT !.pc = "failed", !.err = e]

IdleCmd == [pc |-> "idle", kind |-> "none", chat |-> 0, arg |-> "", i |-> 1]

\* the feeds of the registered conversations: those of group "g1" for
\* conversation 1, those of group "g2" for conversation 2
InitCalendars ==
    calendars = [c \in Chats |->
                   IF c \in chats
                   THEN IF c = 1 THEN calendar_groups["g1"]
                        ELSE calendar_groups["g2"]
                   ELSE <<>>]

InitSystem ==
    /\ conn = "open"
    /\ durable = tracked
    /\ lastMsgId = [c \in Chats |->
                      IF \E r \in tracked : r.chat_id = c /\ r.message_id = 2
                      THEN 2 ELSE 1]
    /\ digests = [c \in Chats |-> {r.message_id : r \in Rows(tracked, c)}]
    /\ replies = <<>>
    /\ chat_ids = {}
    /\ task = [k \in TaskIds |-> IdleTask]
    /\ sfpc = "idle"
    /\ driver = "loop"
    /\ bg = {"periodic"}
    /\ stopped = FALSE
    /\ sleepUntil = 0
    /\ starts = <<>>
    /\ completes = <<>>
    /\ cmd = IdleCmd
    /\ ncmds = 0
    /\ tevents = <<>>
    /\ tlast = NoEvent
    /\ terr = "none"
    /\ markdown = NotGenerated
    /\ structured = NotGenerated

\* the tracked rows of a store: the row of age st.age[c] of each
\* conversation that has one and the older row of conversation 1; message
\* ids grow with time
StoreRows(st) ==
    {[chat_id |-> c, message_id |-> IF c = 1 /\ st.older # 0 THEN 2 ELSE 1,
      pinned |-> TRUE, create_time |-> st.at - st.age[c],
      update_time |-> st.at - st.age[c]] :
     c \in {d \in st.chats : st.age[d] # 0}}
      \cup {[chat_id |-> 1, message_id |-> 1, pinned |-> FALSE,
              create_time |-> st.at - st.older,
              update_time |-> st.at - st.older] :
             c \in {d \in {1} : st.older # 0}}

Init ==
    /\ \E st \in InitStores :
         /\ now = st.at
         /\ chats = st.chats
         /\ tracked = StoreRows(st)
    /\ InitCalendars
    /\ InitSystem

InitRows ==
    /\ \E st \in RowStores :
         /\ now = st.at
         /\ chats = st.chats
         /\ tracked = StoreRows(st)
    /\ InitCalendars
    /\ InitSystem

Tick ==
    /\ now < MaxTime
    /\ now' = now + 1
    /\ UNCHANGED <<storeVars, platformVars, task, driverVars, stopped,
                   cmdVars, trackerVars>>

\* ------------------------------------------------- main.py periodic
\* a sleep that returns at once
SleepDeadlineZero(t, interval) == t

\* asyncio.sleep(interval) started at time t ends at t + interval
SleepDeadline(t, interval) == t + interval

\* a driver that waits for the sleep only
GatherDoneSleepOnly(sf, slept) == slept

\* await asyncio.gather(fn(), asyncio.sleep(interval)) returns when both
\* the call of fn and the sleep have finished
GatherDone(sf, slept) == sf = "done" /\ slept

\* a coroutine that has returned, raised or been cancelled, or never ran
Terminal == {"idle", "done", "failed", "cancelled"}

\* a gather that cancels the other children when one raises
GatherSiblingsCancelled(tk, c) ==
    [d \in DOMAIN tk |->
       IF d # c /\ tk[d].pc \notin Terminal
       THEN [tk[d] EXCEPT !.pc = "cancelled"] ELSE tk[d]]

\* asyncio.gather without return_exceptions: the first exception of a child
\* is propagated to the awaiter; the other children are not cancelled
GatherSiblings(tk, c) == tk

PeriodicIterate ==
    /\ driver = "loop"
    /\ Len(starts) < MaxCycles
    /\ driver' = "gather"
    /\ sfpc' = "list"
    /\ sleepUntil' = SleepDeadline(now, Interval)
    /\ starts' = Append(starts, now)
    /\ UNCHANGED <<now, storeVars, platformVars, task, chat_ids, bg,
                   completes, stopped, cmdVars, trackerVars>>

PeriodicNext ==
    /\ driver = "gather"
    /\ GatherDone(sfpc, now >= sleepUntil)
    /\ driver' = "loop"
    /\ sfpc' = "idle"
    /\ UNCHANGED <<now, storeVars, platformVars, task, chat_ids, bg,
                   sleepUntil, starts, completes, stopped, cmdVars,
                   trackerVars>>

\* the exception of sync_full ends the periodic task; its done callback
\* (main.py:44) discards it from BackgroundTaskManager.tasks
PeriodicRaise ==
    /\ driver = "gather"
    /\ sfpc = "failed"
    /\ driver' = "dead"
    /\ bg' = bg \ {"periodic"}
    /\ UNCHANGED <<now, storeVars, platformVars, task, sfpc, chat_ids,
                   sleepUntil, starts, completes, stopped, cmdVars,
                   trackerVars>>

\* ------------------------------------------- BotManager.sync_full
ListAllChats ==
    /\ sfpc = "list"
    /\ \/ /\ conn = "open"
          /\ sfpc' = "gather"
          /\ chat_ids' = chats
          /\ task' = [k \in TaskIds |-> IF k \in chats THEN SyncChat(k)
                                        ELSE task[k]]
          /\ UNCHANGED completes
       \/ /\ sfpc' = "failed"
          /\ completes' = Append(completes, now)
          /\ UNCHANGED <<task, chat_ids>>
    /\ UNCHANGED <<now, storeVars, platformVars, driver, bg, sleepUntil,
                   starts, stopped, cmdVars, trackerVars>>

SyncFullReturn ==
    /\ sfpc = "gather"
    /\ \A c \in chat_ids : task[c].pc = "done"
    /\ sfpc' = "done"
    /\ completes' = Append(completes, now)
    /\ UNCHANGED <<now, storeVars, platformVars, task, chat_ids, driver,
                   bg, sleepUntil, starts, stopped, cmdVars, trackerVars>>

SyncFullRaise ==
    /\ sfpc = "gather"
    /\ \E c \in chat_ids :
         /\ task[c].pc = "failed"
         /\ task' = GatherSiblings(task, c)
    /\ sfpc' = "failed"
    /\ completes' = Append(completes, now)
    /\ UNCHANGED <<now, storeVars, platformVars, chat_ids, driver, bg,
                   sleepUntil, starts, stopped, cmdVars, trackerVars>>

\* ------------------------------------------- BotManager.sync_chat
\* what a step of a sync_chat coroutine leaves alone besides the store
\* tables and the platform
SyncFrame == UNCHANGED <<now, chats, calendars, conn, replies, driverVars,
                         stopped, cmdVars, trackerVars>>

GetCalendars(k) ==
    LET c == task[k].chat IN
    /\ task[k].pc = "get_calendars"
    /\ \/ /\ conn = "open"
          /\ task' = [task EXCEPT ![k] =
                [Call(@, "get_calendars", "ok") EXCEPT
                   !.cals = calendars[c],
                   !.pc = IF calendars[c] = <<>> THEN "get_latest"
                          ELSE "fetch"]]
       \/ task' = [task EXCEPT ![k] =
             Raise(Call(@, "get_calendars", "error"), StoreError(conn))]
    /\ UNCHANGED <<tracked, durable, lastMsgId, digests>>
    /\ SyncFrame

\* Outcomes of one iteration of the loop of Crawler.process_calendars
\* together with MDTracker.track_event on what it yields:
\*   "ok"          fetched, parsed, every event accepted
\*   "fetch_error" Downloader.fetch raised ConnectionError (status # 200)
\*   "parse_error" icalendar.Calendar.from_ical raised ValueError
\*   "bad_event"   track_event raised TypeError for an event of the feed
FeedOutcomes == {"ok", "fetch_error", "parse_error", "bad_event"}

\* a loop that leaves after its first feed
AfterFeedFirstOnly(t) ==
    [t EXCEPT !.pc = "get_latest", !.message = t.events]

\* the position after the iteration for feed number t.idx
AfterFeed(t) ==
    IF t.idx = Len(t.cals)
    THEN [t EXCEPT !.pc = "get_latest", !.message = t.events]
    ELSE [t EXCEPT !.idx = @ + 1]

\* a loop whose except clause does not cover the fetch
process_calendar_uncaught(t, o) ==
    LET f == t.cals[t.idx].name IN
    IF o = "ok"
    THEN AfterFeed([Call(t, "fetch", "ok") EXCEPT
                      !.expanded = @ \cup {f}, !.events = Append(@, f)])
    ELSE IF o = "fetch_error"
    THEN Raise(Call(t, "fetch", "error"), "ConnectionError")
    ELSE Raise([Call(t, "fetch", "ok") EXCEPT !.expanded = @ \cup {f}],
               IF o = "parse_error" THEN "ValueError" ELSE "TypeError")

process_calendar(t, o) ==
    LET f == t.cals[t.idx].name IN
    CASE o = "fetch_error" ->
           AfterFeed([Call(t, "fetch", "error") EXCEPT
                        !.skipped = @ \cup {f}])
      [] o = "ok" ->
           AfterFeed([Call(t, "fetch", "ok") EXCEPT
                        !.expanded = @ \cup {f},
                        !.events = Append(@, f)])
      [] o = "parse_error" ->
           Raise([Call(t, "fetch", "ok") EXCEPT !.expanded = @ \cup {f}],
                 "ValueError")
      [] o = "bad_event" ->
           Raise([Call(t, "fetch", "ok") EXCEPT !.expanded = @ \cup {f}],
                 "TypeError")

ProcessCalendar(k) ==
    /\ task[k].pc = "fetch"
    /\ \E o \in FeedOutcomes :
         task' = [task EXCEPT ![k] = process_calendar(@, o)]
    /\ UNCHANGED <<tracked, durable, lastMsgId, digests>>
    /\ SyncFrame

\* --------------------------------------- BotManager.update_message
\* a cutoff test that also evicts a row of exactly the cutoff age
IsStaleInclusive(t, row) == t - row.create_time >= OLD_MESSAGE_CUTOFF

\* main.py:83-84  age = now - create_time; if age > OLD_MESSAGE_CUTOFF
IsStale(t, row) == t - row.create_time > OLD_MESSAGE_CUTOFF

\* main.py:79-88  the branch taken on the row read from the store
AfterGetLatest(t, row) ==
    IF row = NoRow THEN "send"
    ELSE IF IsStale(t, row) THEN "delete_stale" ELSE "edit"

\* a failed edit that sends a new message without deleting the row
AfterEditNoDelete(res) ==
    IF res \in {"ok", "same"} THEN "refresh" ELSE "send"

\* main.py:89-115  position after bot.edit_message_text answered res
\*   "ok"    edited
\*   "same"  TelegramError whose message contains "exactly the same"
\*   "error" any other exception: re-raised, caught by except Exception
AfterEdit(res) ==
    IF res \in {"ok", "same"} THEN "refresh" ELSE "delete_lost"

\* main.py:104-115  db.update_message is inside the outer try: an exception
\* it raises is caught by except Exception like a failed edit
AfterRefresh(res) ==
    IF res = "ok" THEN "done" ELSE "delete_lost"

\* pinned set before the pin is attempted
AfterPinAlwaysPinned(t, res) ==
    [Call(t, "pin", res) EXCEPT !.pinned = TRUE, !.pc = "add"]

\* main.py:122-131  pinned is True only when bot.pin_chat_message returned
AfterPin(t, res) ==
    [Call(t, "pin", res) EXCEPT !.pinned = (res = "ok"), !.pc = "add"]

\* Every mutating method of Database is `await conn.execute(...)` followed
\* by `await conn.commit()`. The statement changes the table as the shared
\* connection sees it; the commit makes durable everything the connection
\* has executed. t.dirty names the statement t executed and has not yet
\* committed. A method that fails at either await ends with the exception.
\* The position of update_message once a method has returned or raised:
\*   "delete_stale" main.py:85-88   "refresh"     main.py:104-106
\*   "delete_lost"  main.py:108-115 "add"         main.py:132-134
AfterStore(t, res, e) ==
    CASE t.pc \in {"delete_stale", "delete_stale_commit"} ->
           IF res = "ok"
           THEN [Call(t, "delete", "ok") EXCEPT !.pc = "send"]
           ELSE Raise(Call(t, "delete", "error"), e)
      [] t.pc \in {"refresh", "refresh_commit"} ->
           [Call(t, "refresh", res) EXCEPT !.pc = AfterRefresh(res)]
      [] t.pc \in {"delete_lost", "delete_lost_commit"} ->
           IF res = "ok"
           THEN [Call(t, "delete", "ok") EXCEPT
                   !.latest = NoRow, !.pc = "send"]
           ELSE Raise(Call(t, "delete", "error"), e)
      [] t.pc \in {"add", "add_commit"} ->
           IF res = "ok"
           THEN [Call(t, "add", "ok") EXCEPT !.pc = "done"]
           ELSE Raise(Call(t, "add", "error"), e)

\* the statement of the mutating method at position pc
Statement(tr, t, pc, time) ==
    CASE pc \in {"delete_stale", "delete_lost"} ->
           delete_message(tr, t.chat, t.latest.message_id)
      [] pc = "refresh" ->
           db_update_message(tr, t.chat, t.latest.message_id, time)
      [] pc = "add" ->
           add_tracked_message(tr, t.chat, t.msg, t.pinned, time)

\* await self.conn.execute(...) of the method at position pc
Execute(k, pc) ==
    /\ task[k].pc = pc
    /\ \/ /\ conn = "open"
          /\ tracked' = Statement(tracked, task[k], pc, now)
          /\ task' = [task EXCEPT ![k] =
                [@ EXCEPT !.pc = pc \o "_commit", !.dirty = pc]]
       \/ /\ task' = [task EXCEPT ![k] =
                AfterStore(@, "error", StoreError(conn))]
          /\ UNCHANGED tracked
    /\ UNCHANGED <<durable, lastMsgId, digests>>
    /\ SyncFrame

CommitPcs == {"delete_stale_commit", "refresh_commit", "delete_lost_commit",
              "add_commit"}

\* await self.conn.commit() of a mutating method
Commit(k) ==
    /\ task[k].pc \in CommitPcs
    /\ \/ /\ conn = "open"
          /\ durable' = tracked
          /\ task' = [task EXCEPT ![k] =
                AfterStore([@ EXCEPT !.dirty = "none"], "ok", "none")]
       \/ /\ task' = [task EXCEPT ![k] =
                AfterStore(@, "error", StoreError(conn))]
          /\ UNCHANGED durable
    /\ UNCHANGED <<tracked, lastMsgId, digests>>
    /\ SyncFrame

GetLatest(k) ==
    /\ task[k].pc = "get_latest"
    /\ \/ /\ conn = "open"
          /\ \E row \in get_latest_tracked_message(tracked, task[k].chat) :
               task' = [task EXCEPT ![k] =
                  [Call(@, "get_latest", "ok") EXCEPT
                     !.latest = row, !.seen = row,
                     !.age = IF row = NoRow THEN 0
                             ELSE now - row.create_time,
                     !.pc = AfterGetLatest(now, row)]]
       \/ task' = [task EXCEPT ![k] =
             Raise(Call(@, "get_latest", "error"), StoreError(conn))]
    /\ UNCHANGED <<tracked, durable, lastMsgId, digests>>
    /\ SyncFrame

DeleteStale(k) == Execute(k, "delete_stale")

Edit(k) ==
    /\ task[k].pc = "edit"
    /\ \E res \in {"ok", "same", "error"} :
         task' = [task EXCEPT ![k] =
            [Call(@, "edit", res) EXCEPT !.pc = AfterEdit(res)]]
    /\ UNCHANGED <<tracked, durable, lastMsgId, digests>>
    /\ SyncFrame

Refresh(k) == Execute(k, "refresh")

DeleteLost(k) == Execute(k, "delete_lost")

\* a send whose failure is logged like that of the pin: update_message goes
\* on with the id of the last message of the conversation
SendFailureSwallowed(k) ==
    LET c == task[k].chat IN
    /\ task[k].pc = "send"
    /\ \/ /\ lastMsgId' = [lastMsgId EXCEPT ![c] = @ + 1]
          /\ digests' = [digests EXCEPT ![c] = @ \cup {lastMsgId[c] + 1}]
          /\ task' = [task EXCEPT ![k] =
                [Call(@, "send", "ok") EXCEPT
                   !.msg = lastMsgId[c] + 1, !.pc = "pin"]]
       \/ /\ task' = [task EXCEPT ![k] =
                [Call(@, "send", "error") EXCEPT
                   !.msg = lastMsgId[c], !.pc = "pin"]]
          /\ UNCHANGED <<lastMsgId, digests>>
    /\ UNCHANGED <<tracked, durable>>
    /\ SyncFrame

Send(k) ==
    LET c == task[k].chat IN
    /\ task[k].pc = "send"
    /\ \/ /\ lastMsgId' = [lastMsgId EXCEPT ![c] = @ + 1]
          /\ digests' = [digests EXCEPT ![c] = @ \cup {lastMsgId[c] + 1}]
          /\ task' = [task EXCEPT ![k] =
                [Call(@, "send", "ok") EXCEPT
                   !.msg = lastMsgId[c] + 1, !.pc = "pin"]]
       \/ /\ task' = [task EXCEPT ![k] =
                Raise(Call(@, "send", "error"), "TelegramError")]
          /\ UNCHANGED <<lastMsgId, digests>>
    /\ UNCHANGED <<tracked, durable>>
    /\ SyncFrame

Pin(k) ==
    /\ task[k].pc = "pin"
    /\ \E res \in {"ok", "error"} :
         task' = [task EXCEPT ![k] = AfterPin(@, res)]
    /\ UNCHANGED <<tracked, durable, lastMsgId, digests>>
    /\ SyncFrame

AddTracked(k) == Execute(k, "add")

SyncChatStep(k) ==
    \/ GetCalendars(k)
    \/ ProcessCalendar(k)
    \/ GetLatest(k)
    \/ DeleteStale(k)
    \/ Edit(k)
    \/ Refresh(k)
    \/ DeleteLost(k)
    \/ Send(k)
    \/ Pin(k)
    \/ AddTracked(k)
    \/ Commit(k)

Next ==
    \/ Tick
    \/ PeriodicIterate
    \/ PeriodicNext
    \/ PeriodicRaise
    \/ ListAllChats
    \/ SyncFullReturn
    \/ SyncFullRaise
    \/ \E c \in Chats : SyncChatStep(c)

Spec == Init /\ [][Next]_vars

\* the process on a store with several tracked rows of a conversation
SpecRows == InitRows /\ [][Next]_vars

\* ------------------------------------------------- BotManager.stop
\* a cancellation that the except Exception of update_message catches
CancelledCaught(tk, ids) ==
    [k \in DOMAIN tk |->
       IF k \in ids /\ tk[k].pc \notin Terminal
       THEN IF tk[k].pc \in {"edit", "refresh", "refresh_commit"}
            THEN [tk[k] EXCEPT !.pc = "delete_lost"]
            ELSE [tk[k] EXCEPT !.pc = "cancelled"]
       ELSE tk[k]]

\* Task.cancel() on a task awaiting a gather cancels the gather, which
\* cancels its children that are not done: from periodic to sync_full and,
\* while sync_full awaits its own gather, to the sync_chat coroutines of
\* the cycle. A coroutine outside the tree of a registered task is not
\* reached.
Cancelled(tk, ids) ==
    [k \in DOMAIN tk |->
       IF k \in ids /\ tk[k].pc \notin Terminal
       THEN [tk[k] EXCEPT !.pc = "cancelled"] ELSE tk[k]]

\* main.py:267-268  self.bg.cancel_tasks(): every task of
\* BackgroundTaskManager.tasks is cancelled and the set is cleared
Stop ==
    /\ ~stopped
    /\ stopped' = TRUE
    /\ bg' = {}
    /\ IF "periodic" \in bg
       THEN /\ driver' = "cancelled"
            /\ sfpc' = IF sfpc \in {"list", "gather"} THEN "cancelled"
                       ELSE sfpc
            /\ task' = IF sfpc = "gather" THEN Cancelled(task, chat_ids)
                       ELSE task
       ELSE UNCHANGED <<driver, sfpc, task>>
    /\ UNCHANGED <<now, storeVars, platformVars, chat_ids, sleepUntil,
                   starts, completes, cmdVars, trackerVars>>

\* main.py:269-276  after the platform client has stopped: await
\* self.db.close()
CloseDb ==
    /\ stopped
    /\ conn = "open"
    /\ conn' = "closed"
    /\ UNCHANGED <<now, chats, tracked, durable, calendars, platformVars,
                   task, driverVars, stopped, cmdVars, trackerVars>>

NextStop ==
    \/ Next
    \/ Stop
    \/ CloseDb

\* the process with its shutdown
SpecStop == Init /\ [][NextStop]_vars

\* ------------------------------------------------------- commands
\* context.args[0] of a command: "" stands for no argument; "g3" is not a
\* configured group
Args == {"", "g1", "g2", "g3"}

\* the operations on the feeds of a conversation
\*   "add_group"       BotManager.command_add_calendar_group
\*   "clear_group"     BotManager.command_clear_group
\*   "delete_calendar" Database.delete_calendar(chat, name)
Kinds == {"add_group", "clear_group", "delete_calendar"}

\* an authorization check that lets every conversation through
IsAuthorizedAny(c) == TRUE

\* main.py:169-172  chat.id in chat_ids or str(chat.id) in chat_ids
IsAuthorized(c) == c \in Authorized

\* the first await of an operation
FirstAwait(kind, c, a) ==
    CASE kind = "delete_calendar" -> "delete_calendar"
      [] kind = "clear_group" ->
           IF IsAuthorized(c) THEN "clear" ELSE "deny"
      [] kind = "add_group" ->
           IF ~IsAuthorized(c) THEN "deny"
           ELSE IF a = "" THEN "usage"
           ELSE "touch"

\* the platform hands a command to its handler; handlers run one at a time
Receive(kinds, cs, as) ==
    /\ cmd.pc = "idle"
    /\ ncmds < MaxCommands
    /\ \E kind \in kinds, c \in cs, a \in as :
         cmd' = [pc |-> FirstAwait(kind, c, a), kind |-> kind,
                 chat |-> c, arg |-> a, i |-> 1]
    /\ ncmds' = ncmds + 1
    /\ UNCHANGED <<now, storeVars, platformVars, task, driverVars, stopped,
                   trackerVars>>

\* any operation, from any conversation, with any argument
ReceiveCommand == Receive(Kinds, Chats, Args \cup {"a", "b"})

\* /add_calendar_group g2 from an authorized conversation
ReceiveAddGroup == Receive({"add_group"}, Authorized, {"g2"})

ReplyPcs == {"deny", "usage", "nogroup", "added", "cleared"}

\* the message a handler sends at position cm.pc; the answers about a group
\* quote its name
ReplyText(cm) ==
    [chat |-> cm.chat, kind |-> cm.kind, text |-> cm.pc,
     group |-> IF cm.pc \in {"nogroup", "added"} THEN cm.arg ELSE ""]

\* await context.bot.send_message(...): the answer of a handler. The
\* handler returns after it, except after the confirmation of
\* command_add_calendar_group, which goes on to sync_chat (main.py:206).
Reply ==
    /\ cmd.pc \in ReplyPcs
    /\ \/ /\ replies' = Append(replies, ReplyText(cmd))
          /\ lastMsgId' = [lastMsgId EXCEPT ![cmd.chat] = @ + 1]
          /\ IF cmd.pc = "added"
             THEN /\ cmd' = [cmd EXCEPT !.pc = "sync"]
                  /\ task' = [task EXCEPT ![CmdTask] = SyncChat(cmd.chat)]
             ELSE /\ cmd' = IdleCmd
                  /\ UNCHANGED task
       \/ /\ cmd' = IdleCmd
          /\ UNCHANGED <<replies, lastMsgId, task>>
    /\ UNCHANGED <<now, storeVars, digests, driverVars, stopped, ncmds,
                   trackerVars>>

\* the position of the handler once the store method at cmd.pc returned
AfterCmdStore(cm) ==
    CASE cm.pc = "touch_commit" ->
           IF cm.arg \notin DOMAIN calendar_groups
           THEN [cm EXCEPT !.pc = "nogroup"]
           ELSE [cm EXCEPT !.pc = "add_calendar", !.i = 1]
      [] cm.pc = "add_calendar_commit" ->
           IF cm.i < Len(calendar_groups[cm.arg])
           THEN [cm EXCEPT !.pc = "add_calendar", !.i = @ + 1]
           ELSE [cm EXCEPT !.pc = "added"]
      [] cm.pc = "clear_commit" -> [cm EXCEPT !.pc = "cleared"]
      [] cm.pc = "delete_calendar_commit" -> IdleCmd

\* await conn.execute(...) of touch_chat, add_calendar,
\* clear_calendars_for_chat or delete_calendar
CmdExecute ==
    /\ cmd.pc \in {"touch", "add_calendar", "clear", "delete_calendar"}
    /\ \/ /\ conn = "open"
          /\ chats' = IF cmd.pc = "touch" THEN touch_chat(chats, cmd.chat)
                      ELSE chats
          /\ calendars' =
               CASE cmd.pc = "add_calendar" ->
                      add_calendar(calendars, cmd.chat,
                                   calendar_groups[cmd.arg][cmd.i])
                 [] cmd.pc = "clear" ->
                      clear_calendars_for_chat(calendars, cmd.chat)
                 [] cmd.pc = "delete_calendar" ->
                      delete_calendar(calendars, cmd.chat, cmd.arg)
                 [] OTHER -> calendars
          /\ cmd' = [cmd EXCEPT !.pc = @ \o "_commit"]
       \/ /\ cmd' = IdleCmd
          /\ UNCHANGED <<chats, calendars>>
    /\ UNCHANGED <<now, tracked, durable, conn, platformVars, task,
                   driverVars, stopped, ncmds, trackerVars>>

\* await conn.commit() of the same methods
CmdCommit ==
    /\ cmd.pc \in {"touch_commit", "add_calendar_commit", "clear_commit",
                   "delete_calendar_commit"}
    /\ \/ /\ conn = "open"
          /\ durable' = tracked
          /\ cmd' = AfterCmdStore(cmd)
       \/ /\ cmd' = IdleCmd
          /\ UNCHANGED durable
    /\ UNCHANGED <<now, chats, tracked, calendars, conn, platformVars, task,
                   driverVars, stopped, ncmds, trackerVars>>

\* main.py:206  await self.sync_chat(chat.id) returned or raised
CmdSyncReturn ==
    /\ cmd.pc = "sync"
    /\ task[CmdTask].pc \in {"done", "failed"}
    /\ cmd' = IdleCmd
    /\ UNCHANGED <<now, storeVars, platformVars, task, driverVars, stopped,
                   ncmds, trackerVars>>

\* what the store holds when the process starts: nothing, or conversation
\* 1 with the feeds of group "g1" and possibly a tracked row
InitCmd ==
    /\ \/ /\ now = 0
          /\ chats = {}
          /\ tracked = {}
       \/ \E st \in InitStores :
            /\ st.chats = {1}
            /\ now = st.at
            /\ chats = st.chats
            /\ tracked = StoreRows(st)
    /\ InitCalendars
    /\ InitSystem

\* the handlers, between two cycles of the driver
NextCmd ==
    \/ ReceiveCommand
    \/ Reply
    \/ CmdExecute
    \/ CmdCommit
    \/ CmdSyncReturn
    \/ SyncChatStep(CmdTask)

\* the process with the commands of its users
SpecCmd == InitCmd /\ [][NextCmd]_vars

\* conversation 1 is registered with the feed of group "g2" and has no
\* tracked row
InitRace ==
    /\ now = MaxTime
    /\ chats = {1}
    /\ tracked = {}
    /\ calendars = [c \in Chats |->
                      IF c = 1 THEN calendar_groups["g2"] ELSE <<>>]
    /\ InitSystem

\* one cycle of the driver and the handler of /add_calendar_group
NextRace ==
    \/ PeriodicIterate
    \/ PeriodicRaise
    \/ ListAllChats
    \/ SyncFullReturn
    \/ SyncFullRaise
    \/ \E k \in TaskIds \ {2} : SyncChatStep(k)
    \/ ReceiveAddGroup
    \/ Reply
    \/ CmdExecute
    \/ CmdCommit
    \/ CmdSyncReturn

\* a command of a conversation during a cycle of the driver
SpecRace == InitRace /\ [][NextRace]_vars

\* --------------------------------------------------- MDTracker
TrackerFrame == UNCHANGED <<now, storeVars, platformVars, task, driverVars,
                            stopped, cmdVars>>

\* tracker.track_event(event): sync_chat gives the tracker every event
\* before it renders (main.py:139-142). The events of a run carry the
\* summaries 1, 2, ... in the order in which they are given.
TrackEvent ==
    /\ Len(tevents) < MaxEvents
    /\ markdown = NotGenerated
    /\ structured = NotGenerated
    /\ \E s \in DtStarts, e \in DtEnds :
         LET event == [dtstart |-> s, dtend |-> e,
                       summary |-> Len(tevents) + 1]
             res == track_event(tevents, event)
         IN /\ tevents' = res.events
            /\ terr' = res.err
            /\ tlast' = event
    /\ UNCHANGED <<markdown, structured>>
    /\ TrackerFrame

GenerateMarkdown ==
    /\ markdown = NotGenerated
    /\ markdown' = generate_markdown(tevents)
    /\ UNCHANGED <<tevents, tlast, terr, structured>>
    /\ TrackerFrame

GenerateDict ==
    /\ structured = NotGenerated
    /\ structured' = generate_dict(tevents)
    /\ UNCHANGED <<tevents, tlast, terr, markdown>>
    /\ TrackerFrame

InitTracker ==
    /\ now = 0
    /\ chats = {}
    /\ tracked = {}
    /\ InitCalendars
    /\ InitSystem

NextTracker ==
    \/ TrackEvent
    \/ GenerateMarkdown
    \/ GenerateDict

\* an MDTracker on its own
SpecTracker == InitTracker /\ [][NextTracker]_vars

\* ------------------------------------------------------------ properties
HasCall(t, op, res) == \E i \in 1..Len(t.calls) : t.calls[i] = <<op, res>>

LastCall(t) == IF t.calls = <<>> THEN <<"none", "none">>
               ELSE t.calls[Len(t.calls)]

\* the names of the calls made since the call number i of the trace
OpsAfter(t, i) == [k \in 1..(Len(t.calls) - i) |-> t.calls[i + k][1]]

\* the index of the (only) call of op in the trace, 0 when there is none
IndexOf(t, op) ==
    IF \E i \in 1..Len(t.calls) : t.calls[i][1] = op
    THEN CHOOSE i \in 1..Len(t.calls) : t.calls[i][1] = op
    ELSE 0

IsPrefix(p, q) == Len(p) <= Len(q) /\ \A i \in 1..Len(p) : p[i] = q[i]

\* what update_message has called after reading the latest row
Lifecycle(t) == OpsAfter(t, IndexOf(t, "get_latest"))

StoreOps == {"get_calendars", "get_latest", "delete", "refresh", "add"}

\* C1: in a step in which the sync_chat of one conversation raises, or in
\* which sync_full's gather propagates that exception, the sync_chat of
\* every other conversation of the cycle is left exactly where it was: it is
\* neither cancelled nor restarted and goes on from its own position.
C1_Isolation ==
    [][\A c \in Chats : \A d \in Chats \ {c} :
         (\/ task[c].pc # "failed" /\ task'[c].pc = "failed"
          \/ task[c].pc = "failed" /\ sfpc = "gather" /\ sfpc' = "failed")
         => task'[d] = task[d]]_vars

\* one conversation failed with a store error and sync_full raised; the
\* other conversation persisted its new row in the same cycle
C1_Witness ==
    /\ sfpc = "failed"
    /\ task[1].err = "PersistenceError"
    /\ task[2].pc = "done"
    /\ HasCall(task[2], "add", "ok")
    /\ \E r \in tracked : r.chat_id = 2 /\ r.message_id = task[2].msg

\* C2: a feed whose fetch failed is never expanded, the failed fetch never
\* makes sync_chat raise, and the digest handed to update_message holds the
\* occurrences of exactly the feeds that were not skipped, in feed order.
C2_FetchErrorSkipsFeed ==
    \A c \in Chats :
      LET t == task[c]
          Kept(f) == f.name \notin t.skipped
          kept == SelectSeq(t.cals, Kept)
      IN /\ t.skipped \cap t.expanded = {}
         /\ t.pc = "failed" => LastCall(t) # <<"fetch", "error">>
         /\ HasCall(t, "get_latest", "ok") =>
              t.message = [i \in 1..Len(kept) |-> kept[i].name]

\* the first feed failed to fetch, the second was aggregated, the lifecycle
\* transition ran and sync_chat returned
C2_Witness ==
    /\ task[1].pc = "done"
    /\ task[1].skipped = {"a"}
    /\ task[1].message = <<"b">>
    /\ HasCall(task[1], "add", "ok")

\* C3: a format failure of one feed (unparsable content, event of an
\* unsupported shape) never makes sync_chat raise.
C3_FormatErrorSkipsFeed ==
    \A c \in Chats : task[c].err \notin {"ValueError", "TypeError"}

\* C4: with no tracked row read, update_message calls send, pin, add in
\* that order and once each; a failed pin leaves the invocation running; the
\* row inserted carries the id of the message sent and pinned = pin succeeded.
C4_NoActiveMessage ==
    \A c \in Chats :
      LET t == task[c] IN
      (t.seen = NoRow /\ HasCall(t, "get_latest", "ok")) =>
        /\ IsPrefix(Lifecycle(t), <<"send", "pin", "add">>)
        /\ LastCall(t) = <<"pin", "error">> =>
             t.pc \in {"add", "add_commit"}
        /\ t.pc = "done" =>
             /\ t.msg = lastMsgId[c]
             /\ \E r \in tracked :
                  /\ r.chat_id = c /\ r.message_id = t.msg
                  /\ r.pinned = HasCall(t, "pin", "ok")

\* send succeeded, pin failed, and the row was persisted with pinned false
C4_Witness ==
    \E c \in Chats :
      /\ task[c].pc = "done" /\ task[c].seen = NoRow
      /\ HasCall(task[c], "pin", "error")
      /\ \E r \in tracked : r.chat_id = c /\ r.message_id = task[c].msg
                            /\ ~r.pinned

\* C5: the row read is evicted on age grounds exactly when its age exceeds
\* the cutoff; an evicting update_message calls delete, send, pin, add in
\* that order and never edit; the evicted row is gone once the delete
\* returned, and the row inserted is a latest row of the conversation whose
\* id differs from the evicted one.
C5_StaleEviction ==
    \A c \in Chats :
      LET t == task[c] IN
      (t.seen # NoRow /\ Len(Lifecycle(t)) > 0) =>
        /\ Lifecycle(t)[1] \in {"delete", "edit"}
        /\ Lifecycle(t)[1] = "delete" <=> t.age > OLD_MESSAGE_CUTOFF
        /\ Lifecycle(t)[1] = "delete" =>
             /\ IsPrefix(Lifecycle(t), <<"delete", "send", "pin", "add">>)
             /\ Len(Lifecycle(t)) > 1 => t.seen \notin tracked
             /\ t.pc = "done" =>
                  /\ t.msg # t.seen.message_id
                  /\ \E r \in LatestRows(tracked, c) : r.message_id = t.msg

\* a stale row was evicted and replaced by a row of a new message
C5_Witness ==
    \E c \in Chats :
      /\ task[c].pc = "done" /\ task[c].seen # NoRow
      /\ Lifecycle(task[c]) = <<"delete", "send", "pin", "add">>
      /\ task[c].seen \notin tracked
      /\ \E r \in tracked : r.chat_id = c /\ r.message_id = task[c].msg

\* C6: after an edit that succeeded or reported identical content, the
\* invocation sends no message, attempts no pin and deletes or inserts no
\* tracked row.
C6_EditKeepsRow ==
    \A c \in Chats :
      (HasCall(task[c], "edit", "ok") \/ HasCall(task[c], "edit", "same")) =>
        \A i \in 1..Len(task[c].calls) :
          task[c].calls[i][1] \notin {"send", "pin", "delete", "add"}

\* C7: after an edit that failed for another reason than identical
\* content, update_message calls delete, send, pin, add in that order; the
\* row read is gone once the delete returned, and the row inserted carries
\* the id of the new message.
C7_EditFailureReplaces ==
    \A c \in Chats :
      LET t == task[c]
          i == IndexOf(t, "edit")
      IN HasCall(t, "edit", "error") =>
           /\ IsPrefix(OpsAfter(t, i), <<"delete", "send", "pin", "add">>)
           /\ t.pc = "failed" => LastCall(t)[2] = "error"
                                 /\ LastCall(t)[1] # "edit"
           /\ t.pc \notin {"failed", "done"} =>
                \/ t.pc \in {"delete_lost", "delete_lost_commit"}
                \/ Len(OpsAfter(t, i)) > 0
           /\ Len(OpsAfter(t, i)) > 1 => t.seen \notin tracked
           /\ t.pc = "done" =>
                /\ Len(OpsAfter(t, i)) = 4
                /\ t.msg # t.seen.message_id
                /\ \E r \in tracked : r.chat_id = c /\ r.message_id = t.msg

\* the edit failed and the message was replaced in the same invocation
C7_Witness ==
    \E c \in Chats :
      /\ task[c].pc = "done"
      /\ HasCall(task[c], "edit", "error")
      /\ task[c].seen \notin tracked
      /\ \E r \in tracked : r.chat_id = c /\ r.message_id = task[c].msg

\* C8: a store call that fails is the last call of the invocation, which
\* ends with the PersistenceError.
C8_StoreErrorPropagates ==
    \A c \in Chats : \A i \in 1..Len(task[c].calls) :
      (task[c].calls[i][1] \in StoreOps /\ task[c].calls[i][2] = "error") =>
        /\ i = Len(task[c].calls)
        /\ task[c].pc = "failed"
        /\ task[c].err = "PersistenceError"

\* C9: at the moment sync_full is called, every earlier call of it has
\* completed and no sync_chat of an earlier cycle is still running.
C9_NoOverlap ==
    /\ Len(starts) <= Len(completes) + 1
    /\ sfpc = "list" =>
         /\ Len(completes) = Len(starts) - 1
         /\ \A c \in Chats : task[c].pc \in {"idle", "done"}

\* a second cycle started after a first one that lasted a full interval
C9_Witness ==
    /\ Len(starts) = 2
    /\ completes[1] - starts[1] >= Interval

\* C10 as stated: at least the interval elapses between the completion of
\* one sync_full call and the start of the next.
C10_IntervalFromCompletion ==
    \A i \in 2..Len(starts) : starts[i] - completes[i - 1] >= Interval

\* C10 amended: at least the interval elapses between the start of one
\* sync_full call and the start of the next, and the next starts no earlier
\* than the completion of the previous one.
C10_IntervalFromStart ==
    \A i \in 2..Len(starts) :
      /\ starts[i] - starts[i - 1] >= Interval
      /\ starts[i] >= completes[i - 1]

\* the second cycle started at the very moment the first one completed
C10_Witness ==
    /\ Len(starts) = 2
    /\ starts[2] = completes[1]

\* C11: once BotManager.stop has cancelled the background tasks, no
\* sync_chat is still running: each was cancelled, had returned or had
\* raised, so none makes a further store or platform call and none runs
\* after the store connection is closed.
C11_CancelledAsUnit ==
    stopped => \A k \in TaskIds : task[k].pc \in Terminal

\* the entry lines of a text digest, in order
EntryLines(md) ==
    LET IsEntry(l) == l.kind \in {"allday", "timed"} IN SelectSeq(md, IsEntry)

\* the date of the section in which line number i of the digest stands
SectionOf(md, i) ==
    LET hs == {j \in 1..i : md[j].kind = "date"}
    IN IF hs = {} THEN 0
       ELSE md[CHOOSE j \in hs : \A q \in hs : q <= j].date

\* C12: the structured rendering lists the accepted occurrences in the
\* order in which the text rendering lists them (date by date, all-day
\* entries first, then the timed entries by ascending start).
C12_SameOrder ==
    (markdown # NotGenerated /\ structured # NotGenerated) =>
      LET entries == EntryLines(markdown)
      IN [i \in 1..Len(entries) |-> entries[i].title]
           = [i \in 1..Len(structured) |-> structured[i].title]

\* C13: in the text digest the date lines are in ascending order; every
\* accepted occurrence has exactly one entry line, of its kind, in the
\* section of the date of its start; within a section the all-day entries
\* precede the timed ones and keep their insertion order, and the timed
\* entries are in non-decreasing order of start, ties in insertion order.
C13_DigestOrder ==
    markdown # NotGenerated =>
      LET md == markdown
          Entries == {i \in 1..Len(md) : md[i].kind \in {"allday", "timed"}}
          Ev(i) == tevents[md[i].title]
      IN /\ \A i, j \in 1..Len(md) :
              (i < j /\ md[i].kind = "date" /\ md[j].kind = "date") =>
                md[i].date < md[j].date
         /\ \A n \in 1..Len(tevents) :
              /\ Cardinality({i \in Entries : md[i].title = n}) = 1
              /\ \A i \in Entries :
                   md[i].title = n =>
                     /\ SectionOf(md, i) = tevents[n].start.day
                     /\ (md[i].kind = "allday") = tevents[n].allDay
         /\ \A i \in Entries : md[i].title \in 1..Len(tevents)
         /\ \A i, j \in Entries :
              (i < j /\ SectionOf(md, i) = SectionOf(md, j)) =>
                /\ ~(md[i].kind = "timed" /\ md[j].kind = "allday")
                /\ (md[i].kind = "allday" /\ md[j].kind = "allday") =>
                     md[i].title < md[j].title
                /\ (md[i].kind = "timed" /\ md[j].kind = "timed") =>
                     /\ Instant(Ev(i).start) <= Instant(Ev(j).start)
                     /\ Instant(Ev(i).start) = Instant(Ev(j).start) =>
                          md[i].title < md[j].title

\* a timed occurrence of day 2, then an all-day occurrence of day 2, then
\* an occurrence of day 1 were accepted: the digest shows day 1 first and,
\* under day 2, the all-day entry before the timed one
C13_Witness ==
    /\ markdown # NotGenerated
    /\ Len(tevents) = 3
    /\ ~tevents[1].allDay /\ tevents[1].start.day = 2
    /\ tevents[2].allDay /\ tevents[2].start.day = 2
    /\ tevents[3].start.day = 1
    /\ LET entries == EntryLines(markdown)
       IN [i \in 1..3 |-> entries[i].title] = <<3, 2, 1>>

\* C14: track_event on an event whose DTSTART is a calendar date and which
\* has no DTEND returns without an error and appends an occurrence with
\* allDay true and end one day after its start.
C14_DateOnlyDefaultEnd ==
    (/\ tlast.dtstart.value = "DATE"
     /\ tlast.dtstart.dt.type = "date"
     /\ tlast.dtend = Absent) =>
      /\ terr = "none"
      /\ tevents # <<>>
      /\ LET occ == tevents[Len(tevents)]
         IN /\ occ.title = tlast.summary
            /\ occ.allDay
            /\ occ.end = PlusOneDay(occ.start)

\* C15: every step of the handler of /add_calendar_group for a
\* conversation that is not authorized leaves the store, the sync_chat
\* coroutines and the digests alone; the handler only sends the denial
\* message and returns.
C15_UnauthorizedNoEffect ==
    [][LET cm == IF cmd.pc = "idle" THEN cmd' ELSE cmd IN
       (cmd' # cmd /\ cm.kind = "add_group" /\ cm.chat \notin Authorized) =>
         /\ UNCHANGED <<chats, calendars, tracked, durable, task, digests>>
         /\ cm.pc = "deny"
         /\ cmd'.pc = "idle" =>
              \/ replies' = replies
              \/ replies' = Append(replies,
                   [chat |-> cm.chat, kind |-> "add_group",
                    text |-> "deny", group |-> ""])]_vars

\* conversation 2, not authorized, was answered with the denial and is
\* neither registered nor given a feed
C15_Witness ==
    /\ cmd.pc = "idle"
    /\ \E i \in 1..Len(replies) :
         replies[i] = [chat |-> 2, kind |-> "add_group", text |-> "deny",
                       group |-> ""]
    /\ 2 \notin chats
    /\ calendars[2] = <<>>
    /\ task[CmdTask].pc = "idle"

\* no two feeds of a conversation have the same name
FeedNamesUnique ==
    \A c \in Chats : \A i, j \in 1..Len(calendars[c]) :
      calendars[c][i].name = calendars[c][j].name => i = j

\* C16: no conversation ever has two feeds of the same name, and a step
\* that adds a feed keeps every feed of every conversation as it was: it
\* changes nothing when the conversation has a feed of that name, and
\* appends the feed otherwise.
C16_UniqueFeedNames ==
    /\ []FeedNamesUnique
    /\ [][(cmd.pc = "add_calendar" /\ cmd'.pc = "add_calendar_commit") =>
            LET f == calendar_groups[cmd.arg][cmd.i]
                old == calendars[cmd.chat]
            IN /\ \A d \in Chats \ {cmd.chat} : calendars'[d] = calendars[d]
               /\ IF \E i \in 1..Len(old) : old[i].name = f.name
                  THEN calendars' = calendars
                  ELSE calendars'[cmd.chat] = Append(old, f)]_vars

\* group "g2", whose feed "a" has another address, was attached to
\* conversation 1, which still has exactly the feeds of group "g1"
C16_Witness ==
    /\ \E i \in 1..Len(replies) :
         replies[i] = [chat |-> 1, kind |-> "add_group", text |-> "added",
                       group |-> "g2"]
    /\ calendars[1] = calendar_groups["g1"]
    /\ calendar_groups["g2"][1].name = calendars[1][1].name
    /\ calendar_groups["g2"][1] # calendars[1][1]

\* two sync_chat coroutines of one conversation that both read no tracked
\* row and both returned
BothSawNoRow(k1, k2) ==
    /\ k1 # k2
    /\ task[k1].chat = task[k2].chat
    /\ \A k \in {k1, k2} :
         /\ task[k].pc = "done"
         /\ task[k].seen = NoRow
         /\ HasCall(task[k], "get_latest", "ok")

\* C17: nothing keeps two sync_chat coroutines of one conversation apart.
\* Two that both read no tracked row and both returned have each sent a
\* digest message of their own; and the insert of a sync_chat that read no
\* tracked row adds a row to those the conversation has by then, whatever
\* another sync_chat has inserted since the read.
C17_RaceDuplicates ==
    /\ [](\A k1, k2 \in TaskIds :
            BothSawNoRow(k1, k2) =>
              /\ task[k1].msg # task[k2].msg
              /\ {task[k1].msg, task[k2].msg}
                   \subseteq digests[task[k1].chat])
    /\ [][\A k \in TaskIds :
            (/\ task[k].pc = "add" /\ task'[k].pc = "add_commit"
             /\ task[k].seen = NoRow) =>
              LET c == task[k].chat IN
              /\ Rows(tracked, c) \subseteq Rows(tracked', c)
              /\ Cardinality(Rows(tracked', c))
                   = Cardinality(Rows(tracked, c)) + 1
              /\ \E r \in tracked' \ tracked :
                   r.chat_id = c /\ r.message_id = task[k].msg]_vars

\* the sync_chat of the command and the sync_chat of the cycle interleaved
\* for conversation 1: both read no tracked row, both sent a digest, and the
\* store holds two tracked rows of the conversation
C17_Witness ==
    /\ BothSawNoRow(CmdTask, 1)
    /\ Cardinality(digests[1]) = 2
    /\ Cardinality(Rows(tracked, 1)) = 2

\* the number of calls of op in the trace of t
CountCalls(t, op) == Cardinality({i \in 1..Len(t.calls) : t.calls[i][1] = op})

\* C18: sync_chat calls update_message (whose first call reads the latest
\* tracked row) at most once, exactly once when it returns, and only after
\* the loop of process_calendars has handled every feed: each was expanded
\* or skipped, by one fetch each, before the read; the digest handed over
\* is the one built from the expansions; update_message works on the row
\* that this read returned.
C18_RenderAfterAllFeeds ==
    \A c \in Chats :
      LET t == task[c]
          g == IndexOf(t, "get_latest")
      IN /\ CountCalls(t, "get_latest") <= 1
         /\ t.pc = "done" => CountCalls(t, "get_latest") = 1
         /\ g # 0 =>
              /\ {t.cals[i].name : i \in 1..Len(t.cals)}
                   = t.skipped \cup t.expanded
              /\ CountCalls(t, "fetch") = Len(t.cals)
              /\ \A i \in 1..Len(t.calls) :
                   t.calls[i][1] \in {"get_calendars", "fetch"} => i < g
              /\ t.message = t.events
         /\ g = 0 => t.seen = NoRow /\ t.latest = NoRow /\ t.msg = 0
         /\ t.latest \in {t.seen, NoRow}
         /\ t.pc \in {"edit", "delete_stale"} =>
              t.latest = t.seen /\ t.seen \in LatestRows(tracked, c)

\* sync_chat returned for a conversation with two feeds: the first was
\* expanded, the second skipped, and the tracked row was read after both
C18_Witness ==
    /\ task[1].pc = "done"
    /\ Len(task[1].cals) = 2
    /\ task[1].expanded = {"a"}
    /\ task[1].skipped = {"b"}
    /\ IndexOf(task[1], "get_latest") = 4

\* C19: a statement that a sync_chat executed and had not committed when
\* it was cancelled or failed is never durable: the row it inserted is not
\* in the durable table, the row it deleted or refreshed is still there as
\* it was read.
C19_AtomicMutations ==
    \A k \in TaskIds :
      LET t == task[k] IN
      t.pc \in {"failed", "cancelled"} =>
        /\ t.dirty = "add" =>
             ~\E r \in durable : r.chat_id = t.chat /\ r.message_id = t.msg
        /\ t.dirty \in {"delete_stale", "delete_lost", "refresh"} =>
             t.seen \in durable

\* C20: a step of a sync_chat removes or changes no tracked row but the one
\* its update_message read, which was a row of the greatest create_time of
\* its conversation when it was read; the rows it adds are that row with a
\* new update_time or the row of the message it sent.
C20_OnlyLatestRow ==
    [][\A k \in TaskIds :
         (task'[k] # task[k] /\ task[k].pc \notin Terminal) =>
           LET t == task[k] IN
           /\ \A r \in tracked \ tracked' :
                /\ t.seen # NoRow
                /\ r.chat_id = t.chat
                /\ r.message_id = t.seen.message_id
           /\ \A r \in tracked' \ tracked :
                /\ r.chat_id = t.chat
                /\ \/ r.message_id = t.msg
                   \/ r = [t.seen EXCEPT !.update_time = r.update_time]
           /\ (t.pc = "get_latest" /\ task'[k].seen # NoRow) =>
                /\ task'[k].seen \in Rows(tracked, t.chat)
                /\ \A q \in Rows(tracked, t.chat) :
                     q.create_time <= task'[k].seen.create_time]_vars

\* conversation 1 had two tracked rows: its update_message deleted the
\* latest one and inserted the row of a new message; the older row is
\* still there
C20_Witness ==
    /\ task[1].pc = "done"
    /\ task[1].seen.message_id = 2
    /\ HasCall(task[1], "delete", "ok")
    /\ Rows(tracked, 1) \ {r \in tracked : r.message_id = task[1].msg}
         = {r \in Rows(tracked, 1) : r.message_id = 1}
    /\ Cardinality(Rows(tracked, 1)) = 2


\* C21: the invocations of sync_chat for a conversation do not overlap
\* (one per cycle); the store holds at most one tracked row of each
\* conversation, and exactly one once an invocation whose send or edit
\* succeeded has ended.
C21_OneActiveRow ==
    \A c \in Chats :
      LET t == task[c] IN
      /\ Cardinality(Rows(tracked, c)) <= 1
      /\ (/\ t.pc \in {"done", "failed"}
          /\ HasCall(t, "send", "ok") \/ HasCall(t, "edit", "ok")) =>
           Cardinality(Rows(tracked, c)) = 1


\* C22: the periodic driver outlives a failed cycle: once the sync_chat of
\* some conversation of the cycle has raised, the driver is still awaiting
\* the gather of that cycle or back in its loop, and it is still registered
\* with the BackgroundTaskManager, unless shutdown has cancelled it.
C22_DriverSurvivesFailedCycle ==
    (\E c \in chat_ids : task[c].pc = "failed") =>
      /\ driver \in {"loop", "gather"} \/ (stopped /\ driver = "cancelled")
      /\ ~stopped => "periodic" \in bg


\* the positions of update_message inside the try of main.py:89-106: the
\* platform edit and the two awaits of the update-time refresh
EditPcs == {"edit", "refresh", "refresh_commit"}

\* C23: a cancellation that reaches a sync_chat suspended in the platform
\* edit or in the update-time refresh ends the coroutine there: that step
\* changes neither the store nor the platform, the coroutine takes no further
\* step, and a coroutine cancelled there (its edit and its refresh, as far
\* as they got, did not fail) has deleted no row and sent no message, and
\* the row it read is still tracked.
C23_CancelledEditIsNotFailure ==
    /\ [][\A c \in Chats :
            /\ (/\ ~stopped /\ stopped'
                /\ "periodic" \in bg /\ sfpc = "gather" /\ c \in chat_ids
                /\ task[c].pc \in EditPcs) =>
                 /\ task'[c] = [task[c] EXCEPT !.pc = "cancelled"]
                 /\ UNCHANGED <<storeVars, platformVars>>
            /\ task[c].pc = "cancelled" => task'[c] = task[c]]_vars
    /\ [](\A c \in Chats :
            LET t == task[c] IN
            (/\ t.pc = "cancelled" /\ t.seen # NoRow
             /\ t.age <= OLD_MESSAGE_CUTOFF
             /\ ~HasCall(t, "edit", "error")
             /\ ~HasCall(t, "refresh", "error")) =>
              /\ Lifecycle(t) \in {<<>>, <<"edit">>}
              /\ \E r \in Rows(tracked, c) :
                   r.message_id = t.seen.message_id)

\* a sync_chat was cancelled while suspended in the platform edit, and
\* another after the edit had succeeded, in the update-time refresh
C23_Witness ==
    \E c \in Chats :
      LET t == task[c] IN
      /\ t.pc = "cancelled" /\ t.seen # NoRow
      /\ t.age <= OLD_MESSAGE_CUTOFF
      /\ Lifecycle(t) = <<"edit">>
      /\ t.dirty = "refresh"
      /\ \E r \in Rows(tracked, c) : r.message_id = t.seen.message_id


\* C24: no step of the handler of an authorized /add_calendar_group whose
\* argument names no configured group changes the store: the conversation
\* is not registered, and no feed and no tracked row is added.
C24_UnknownGroupNoEffect ==
    [][(/\ cmd.kind = "add_group" /\ IsAuthorized(cmd.chat)
        /\ cmd.arg # "" /\ cmd.arg \notin DOMAIN calendar_groups) =>
         UNCHANGED <<chats, calendars, tracked, durable>>]_vars


\* C25: every tracked row holds the id of a digest message that a
\* successful send delivered to its conversation; a row is inserted only by
\* an invocation whose send succeeded, with the id that send returned; a
\* failed send is the last call of its invocation, which ends with the
\* TelegramError and has inserted no row.
C25_RowsHoldSentIds ==
    /\ [](\A r \in tracked : r.message_id \in digests[r.chat_id])
    /\ [](\A c \in Chats :
            LET t == task[c] IN
            HasCall(t, "send", "error") =>
              /\ t.pc = "failed" /\ t.err = "TelegramError"
              /\ LastCall(t) = <<"send", "error">>
              /\ t.dirty = "none" /\ t.msg = 0)
    /\ [][\A r \in tracked' :
            (~ \E q \in tracked : /\ q.chat_id = r.chat_id
                                  /\ q.message_id = r.message_id) =>
              \E k \in TaskIds :
                /\ task[k].pc = "add" /\ task[k].chat = r.chat_id
                /\ task[k].msg = r.message_id
                /\ LastCall(task[k])[1] = "pin"
                /\ HasCall(task[k], "send", "ok")]_vars

\* in one cycle the send of one conversation succeeded and its row was
\* inserted, while the send of the other failed and ended its invocation
C25_Witness ==
    \E c \in Chats, d \in Chats :
      /\ c # d
      /\ task[c].pc = "done" /\ HasCall(task[c], "send", "ok")
      /\ \E r \in Rows(tracked, c) : r.message_id = task[c].msg
      /\ task[d].pc = "failed" /\ LastCall(task[d]) = <<"send", "error">>
      /\ \A r \in Rows(tracked, d) : r.message_id # lastMsgId[d]

============================================================================
